---- MODULE Spec2Model ----
(***************************************************************************)
(* Model of the FPGA image pipeline simulator (megaproject.cpp): the Image *)
(* buffer with its bounds-checked accessors, the three filters, and the    *)
(* Pipeline with its ping-pong buffers.                                    *)
(*                                                                         *)
(* Image objects and their pixel blocks are kept in two maps, so that a    *)
(* copy that shares a block with its original is a state the model can     *)
(* express.  Objects and blocks are named after the place that allocates   *)
(* them.                                                                   *)
(***************************************************************************)
EXTENDS Integers, Sequences, FiniteSets, TLC

VARIABLES
    pc,             \* position of the caller / of execute()
    images,         \* live Image objects: id -> [width, height, data]
    mem,            \* live pixel blocks: block id -> sequence of Pixel
    workingBuffer,  \* Pipeline::workingBuffer
    backBuffer,     \* execute()'s local backBuffer
    stages,         \* Pipeline::stages, as a sequence of filter names
    step,           \* execute()'s local step
    files,          \* the debug frames written by savePPM, in order
    applied,        \* history: one record per filter->apply call
    released,       \* history: the Image deleted at the end of execute()
    lastAccess,     \* history: the caller's last access through getResult()
    input0          \* history: the caller's pixels when the image was loaded

vars == <<pc, images, mem, workingBuffer, backBuffer, stages, step, files,
          applied, released, lastAccess, input0>>

----------------------------------------------------------------------------
(* Bounds of the model *)

MaxDim == 3
MaxStages == 3

----------------------------------------------------------------------------
(* Pixels and sample data *)

Pix(r, g, b) == [r |-> r, g |-> g, b |-> b]

ZeroPixel == Pix(0, 0, 0)

Palette == << Pix(0, 0, 0), Pix(255, 255, 255), Pix(200, 100, 50), Pix(90, 90, 90) >>

\* A pattern fills a grid with Palette entries; a = b = 0 is a uniform image.
PatternPixel(pat, x, y) ==
    Palette[((pat.a * x + pat.b * y + pat.c) % Len(Palette)) + 1]

PatternData(pat, w, h) ==
    [k \in 1..(w * h) |-> PatternPixel(pat, (k - 1) % w, (k - 1) \div w)]

\* Images the caller may have loaded.
InputPatterns ==
    { [a |-> 0, b |-> 0, c |-> 1],      \* uniform white
      [a |-> 0, b |-> 0, c |-> 3],      \* uniform gray 90
      [a |-> 0, b |-> 0, c |-> 2],      \* uniform colour
      [a |-> 1, b |-> 1, c |-> 0],      \* diagonal stripes
      [a |-> 1, b |-> 2, c |-> 1] }

\* new Pixel[n] leaves the pixels indeterminate: the block may be all zero
\* (fresh pages) or hold whatever the heap held.
UninitPatterns ==
    { [a |-> 0, b |-> 0, c |-> 0],
      [a |-> 1, b |-> 1, c |-> 1] }

FilterNames == {"Grayscale", "Blur", "Sobel"}

NULL == "null"

----------------------------------------------------------------------------
(* HardwareMath *)

clamp(val) == IF val < 0 THEN 0 ELSE IF val > 255 THEN 255 ELSE val

Abs(n) == IF n < 0 THEN -n ELSE n

----------------------------------------------------------------------------
(* Image *)

InBounds(img, x, y) == x >= 0 /\ x < img.width /\ y >= 0 /\ y < img.height

\* Linear addressing; the block is indexed from 1 here.
Addr(img, x, y) == y * img.width + x + 1

getPixel(m, img, x, y) ==
    IF x < 0 \/ x >= img.width \/ y < 0 \/ y >= img.height
    THEN ZeroPixel
    ELSE m[img.data][Addr(img, x, y)]

setPixelWrapRow(m, img, x, y, p) ==
    IF y >= 0 /\ y < img.height /\ Addr(img, x, y) \in DOMAIN m[img.data]
    THEN [m EXCEPT ![img.data][Addr(img, x, y)] = p]
    ELSE m

setPixel(m, img, x, y, p) ==
    IF x >= 0 /\ x < img.width /\ y >= 0 /\ y < img.height
    THEN [m EXCEPT ![img.data][Addr(img, x, y)] = p]
    ELSE m

\* Image(int w, int h): a new object with a new block of indeterminate pixels.
ImageNew(imgs, m, id, w, h, fill) ==
    [images |-> (id :> [width |-> w, height |-> h, data |-> id]) @@ imgs,
     mem    |-> (id :> fill) @@ m]

ImageCopyNoFill(imgs, m, id, other) ==
    [images |-> (id :> [width |-> imgs[other].width,
                        height |-> imgs[other].height,
                        data |-> id]) @@ imgs,
     mem    |-> (id :> [i \in 1..(imgs[other].width * imgs[other].height) |->
                            ZeroPixel]) @@ m]

ImageCopyShallow(imgs, m, id, other) ==
    [images |-> (id :> [width |-> imgs[other].width,
                        height |-> imgs[other].height,
                        data |-> imgs[other].data]) @@ imgs,
     mem    |-> m]

\* Image(const Image&): a new block, filled pixel by pixel from the other's.
ImageCopy(imgs, m, id, other) ==
    [images |-> (id :> [width |-> imgs[other].width,
                        height |-> imgs[other].height,
                        data |-> id]) @@ imgs,
     mem    |-> (id :> [i \in 1..(imgs[other].width * imgs[other].height) |->
                            m[imgs[other].data][i]]) @@ m]

\* ~Image(): the object and its block are gone.
ImageDelete(imgs, m, id) ==
    [images |-> [i \in (DOMAIN imgs) \ {id} |-> imgs[i]],
     mem    |-> [b \in (DOMAIN m) \ {imgs[id].data} |-> m[b]]]

----------------------------------------------------------------------------
(* Filters *)

kernelBox == << <<1, 1, 1>>, <<1, 1, 1>>, <<1, 1, 1>> >>

kernel == << <<1, 2, 1>>, <<2, 4, 2>>, <<1, 2, 1>> >>

divisor == 16

gx == << <<-1, 0, 1>>, <<-2, 0, 2>>, <<-1, 0, 1>> >>

gy == << <<-1, -2, -1>>, <<0, 0, 0>>, <<1, 2, 1>> >>

\* The convolution loops: the nine taps of a 3x3 matrix K around (x, y),
\* row by row, on the red channel.  Tap n has kx = n % 3 - 1, ky = n \div 3 - 1.
RECURSIVE Convolve(_, _, _, _, _, _)
Convolve(m, src, x, y, K, n) ==
    IF n >= 9 THEN 0
    ELSE LET kx == (n % 3) - 1
             ky == (n \div 3) - 1
         IN  getPixel(m, src, x + kx, y + ky).r * K[ky + 2][kx + 2]
               + Convolve(m, src, x, y, K, n + 1)

GrayscalePixelSwapped(m, src, x, y) ==
    LET p    == getPixel(m, src, x, y)
        gray == (p.r * 150 + p.g * 77 + p.b * 29) \div 256
        val  == clamp(gray)
    IN  Pix(val, val, val)

\* GrayscaleFilter::apply, one pixel
GrayscalePixel(m, src, x, y) ==
    LET p    == getPixel(m, src, x, y)
        gray == (p.r * 77 + p.g * 150 + p.b * 29) \div 256
        val  == clamp(gray)
    IN  Pix(val, val, val)

\* BlurFilter::apply, one pixel
BlurPixel(m, src, x, y) ==
    LET sum == Convolve(m, src, x, y, kernel, 0)
        val == clamp(sum \div divisor)
    IN  Pix(val, val, val)

\* SobelFilter::apply, one pixel
SobelPixel(m, src, x, y) ==
    LET sumX  == Convolve(m, src, x, y, gx, 0)
        sumY  == Convolve(m, src, x, y, gy, 0)
        mag   == Abs(sumX) + Abs(sumY)
        final == clamp(mag)
    IN  Pix(final, final, final)

FilterPixel(f, m, src, x, y) ==
    CASE f = "Grayscale" -> GrayscalePixel(m, src, x, y)
      [] f = "Blur"      -> BlurPixel(m, src, x, y)
      [] f = "Sobel"     -> SobelPixel(m, src, x, y)

\* The coordinates <<x, y>> a filter's loops visit.
LoopRange(f, src) ==
    IF f = "Sobel"
    THEN (1..(src.width - 2)) \X (1..(src.height - 2))
    ELSE (0..(src.width - 1)) \X (0..(src.height - 1))

\* filter->apply(src, dest): the loops run row by row, each visit reading the
\* source block and writing the destination block as they are at that moment.
RECURSIVE ApplyLoop(_, _, _, _, _)
ApplyLoop(f, m, src, dst, k) ==
    IF k >= src.width * src.height THEN m
    ELSE LET x == k % src.width
             y == k \div src.width
         IN  IF <<x, y>> \in LoopRange(f, src)
             THEN ApplyLoop(f, setPixel(m, dst, x, y, FilterPixel(f, m, src, x, y)),
                            src, dst, k + 1)
             ELSE ApplyLoop(f, m, src, dst, k + 1)

apply(f, m, src, dst) == ApplyLoop(f, m, src, dst, 0)

\* The addresses of the destination block that one apply stores to.
Stored(f, src, dst) ==
    { Addr(dst, c[1], c[2]) : c \in { d \in LoopRange(f, src) : InBounds(dst, d[1], d[2]) } }

\* IOHandler::savePPM: the header and the pixels read back through getPixel.
savePPM(m, img, tag) ==
    [tag    |-> tag,
     width  |-> img.width,
     height |-> img.height,
     pixels |-> [k \in 1..(img.width * img.height) |->
                    getPixel(m, img, (k - 1) % img.width, (k - 1) \div img.width)]]

----------------------------------------------------------------------------
(* The caller and the Pipeline *)

Init ==
    /\ pc = "new"
    /\ \E w \in 1..MaxDim, h \in 1..MaxDim, pat \in InputPatterns :
          /\ images = ("input" :> [width |-> w, height |-> h, data |-> "input"])
          /\ mem = ("input" :> PatternData(pat, w, h))
          /\ input0 = PatternData(pat, w, h)
    /\ workingBuffer = NULL
    /\ backBuffer = NULL
    /\ stages = << >>
    /\ step = 0
    /\ files = << >>
    /\ applied = << >>
    /\ released = NULL
    /\ lastAccess = [op |-> "none"]

\* Pipeline(Image* input)
Construct ==
    /\ pc = "new"
    /\ LET r == ImageCopy(images, mem, "working", "input")
       IN  /\ images' = r.images
           /\ mem' = r.mem
    /\ workingBuffer' = "working"
    /\ pc' = "setup"
    /\ UNCHANGED <<backBuffer, stages, step, files, applied, released,
                   lastAccess, input0>>

\* addStage(filter)
AddStage ==
    /\ pc = "setup"
    /\ Len(stages) < MaxStages
    /\ \E f \in FilterNames : stages' = Append(stages, f)
    /\ UNCHANGED <<pc, images, mem, workingBuffer, backBuffer, step, files,
                   applied, released, lastAccess, input0>>

StageAtReversed(sts, n) == sts[Len(sts) + 1 - n]

\* The filter the range-for of execute() reaches on its n-th iteration.
StageAt(sts, n) == sts[n]

SwapKeepBack(wb, bb) == [workingBuffer |-> bb, backBuffer |-> bb]

SwapNone(wb, bb) == [workingBuffer |-> wb, backBuffer |-> bb]

\* temp = workingBuffer; workingBuffer = backBuffer; backBuffer = temp
Swap(wb, bb) == [workingBuffer |-> bb, backBuffer |-> wb]

\* execute(), up to the loop: the back buffer is allocated, its pixels
\* indeterminate.
ExecuteBegin ==
    /\ pc = "setup"
    /\ \E pat \in UninitPatterns :
          LET w == images[workingBuffer].width
              h == images[workingBuffer].height
              r == ImageNew(images, mem, "back", w, h, PatternData(pat, w, h))
          IN  /\ images' = r.images
              /\ mem' = r.mem
    /\ backBuffer' = "back"
    /\ step' = 1
    /\ pc' = IF stages = << >> THEN "release" ELSE "apply"
    /\ UNCHANGED <<workingBuffer, stages, files, applied, released,
                   lastAccess, input0>>

\* 1. filter->apply(workingBuffer, backBuffer)
Apply ==
    /\ pc = "apply"
    /\ LET f   == StageAt(stages, step)
           src == images[workingBuffer]
           dst == images[backBuffer]
           m2  == apply(f, mem, src, dst)
       IN  /\ mem' = m2
           /\ applied' = Append(applied,
                  [index  |-> step,
                   filter |-> f,
                   src    |-> workingBuffer,
                   dest   |-> backBuffer,
                   width  |-> dst.width,
                   height |-> dst.height,
                   stored |-> Stored(f, src, dst),
                   in     |-> mem[src.data],
                   out    |-> m2[dst.data]])
    /\ pc' = "swap"
    /\ UNCHANGED <<images, workingBuffer, backBuffer, stages, step, files,
                   released, lastAccess, input0>>

\* 2. swap the buffers
SwapBuffers ==
    /\ pc = "swap"
    /\ LET r == Swap(workingBuffer, backBuffer)
       IN  /\ workingBuffer' = r.workingBuffer
           /\ backBuffer' = r.backBuffer
    /\ pc' = "save"
    /\ UNCHANGED <<images, mem, stages, step, files, applied, released,
                   lastAccess, input0>>

\* 3. save the debug frame, step++, and the loop test
SaveFrame ==
    /\ pc = "save"
    /\ files' = Append(files, savePPM(mem, images[workingBuffer], step))
    /\ step' = step + 1
    /\ pc' = IF step + 1 <= Len(stages) THEN "apply" ELSE "release"
    /\ UNCHANGED <<images, mem, workingBuffer, backBuffer, stages, applied,
                   released, lastAccess, input0>>

\* delete backBuffer; execute() returns
Release ==
    /\ pc = "release"
    /\ LET r == ImageDelete(images, mem, backBuffer)
       IN  /\ images' = r.images
           /\ mem' = r.mem
    /\ released' = backBuffer
    /\ backBuffer' = NULL
    /\ pc' = "done"
    /\ UNCHANGED <<workingBuffer, stages, step, files, applied, lastAccess,
                   input0>>

\* Image* getResult()
getResult == workingBuffer

\* The coordinates the caller tries: both sides of every edge.
Probe(n) == {-1, 0, n - 1, n}

\* The caller writes one pixel through getResult() after execute().
ResultSetPixel ==
    /\ pc = "done"
    /\ lastAccess.op = "none"
    /\ getResult \in DOMAIN images
    /\ LET img == images[getResult]
       IN  \E x \in Probe(img.width), y \in Probe(img.height) :
              /\ mem' = setPixel(mem, img, x, y, Palette[3])
              /\ lastAccess' = [op |-> "set", x |-> x, y |-> y,
                                before |-> mem[img.data]]
    /\ UNCHANGED <<pc, images, workingBuffer, backBuffer, stages, step, files,
                   applied, released, input0>>

\* The caller reads one pixel through getResult() after execute().
ResultGetPixel ==
    /\ pc = "done"
    /\ lastAccess.op = "none"
    /\ getResult \in DOMAIN images
    /\ LET img == images[getResult]
       IN  \E x \in Probe(img.width), y \in Probe(img.height) :
              lastAccess' = [op |-> "get", x |-> x, y |-> y,
                             ret |-> getPixel(mem, img, x, y)]
    /\ UNCHANGED <<pc, images, mem, workingBuffer, backBuffer, stages, step,
                   files, applied, released, input0>>

Next ==
    \/ Construct
    \/ AddStage
    \/ ExecuteBegin
    \/ Apply
    \/ SwapBuffers
    \/ SaveFrame
    \/ Release
    \/ ResultSetPixel
    \/ ResultGetPixel

Spec == Init /\ [][Next]_vars

----------------------------------------------------------------------------
(* Properties *)

ResultData == mem[images[getResult].data]

NumStages == Len(stages)

UniformGray(d) ==
    /\ d[1].r = d[1].g /\ d[1].g = d[1].b
    /\ \A k \in DOMAIN d : d[k] = d[1]

\* The addresses of a w x h block with a full 3x3 neighbourhood, and the rest.
Interior(w, h) == { y * w + x + 1 : x \in 1..(w - 2), y \in 1..(h - 2) }

Ring(w, h) == (1..(w * h)) \ Interior(w, h)

LastAccessInBounds ==
    /\ lastAccess.x >= 0 /\ lastAccess.x < images[getResult].width
    /\ lastAccess.y >= 0 /\ lastAccess.y < images[getResult].height

\* C1, as claimed: with two or more stages, the buffer getResult() returns
\* after execute() is the one the last stage wrote into and is not the one the
\* first stage wrote into.
C1_ResultNeverFirstDest ==
    (pc = "done" /\ NumStages >= 2) =>
        /\ Len(applied) = NumStages
        /\ getResult = applied[Len(applied)].dest
        /\ getResult # applied[1].dest

\* C1, amended: with two or more stages, the buffer getResult() returns after
\* execute() is the one the last stage wrote into and holds what that stage
\* left there; it is not the one the first stage wrote into exactly when the
\* number of stages is even.
C1_ResultIsLastDest ==
    (pc = "done" /\ NumStages >= 2) =>
        /\ Len(applied) = NumStages
        /\ getResult = applied[Len(applied)].dest
        /\ lastAccess.op # "set" => ResultData = applied[Len(applied)].out
        /\ (getResult # applied[1].dest) <=> (NumStages % 2 = 0)

C1_Witness ==
    /\ pc = "done"
    /\ NumStages = 3
    /\ stages = << "Grayscale", "Blur", "Sobel" >>
    /\ getResult = applied[1].dest

\* C2: after a Sobel stage, every pixel on the outermost ring of its
\* destination is the zero pixel, and only interior coordinates were written.
C2_SobelRingZero ==
    \A i \in DOMAIN applied :
        applied[i].filter = "Sobel" =>
            /\ applied[i].stored \subseteq Interior(applied[i].width, applied[i].height)
            /\ \A k \in Ring(applied[i].width, applied[i].height) :
                  applied[i].out[k] = ZeroPixel

\* C3, as claimed: Blur of a uniform gray source gives the same image, border
\* and corner pixels included.
C3_BlurUniformFixedPoint ==
    \A i \in DOMAIN applied :
        (applied[i].filter = "Blur" /\ UniformGray(applied[i].in)) =>
            applied[i].out = applied[i].in

\* C3, amended: Blur of a uniform gray source (v,v,v) gives (v,v,v) at every
\* pixel whose 3x3 neighbourhood lies inside the buffer; a border or corner
\* pixel is gray with a value of at most v, and below v when v > 0.
C3_BlurUniformInterior ==
    \A i \in DOMAIN applied :
        (applied[i].filter = "Blur" /\ UniformGray(applied[i].in)) =>
            LET v == applied[i].in[1].r
                w == applied[i].width
                h == applied[i].height
            IN  /\ \A k \in Interior(w, h) : applied[i].out[k] = Pix(v, v, v)
                /\ \A k \in Ring(w, h) :
                      LET q == applied[i].out[k]
                      IN  /\ q.r = q.g /\ q.g = q.b
                          /\ q.r >= 0 /\ q.r <= v
                          /\ v > 0 => q.r < v

C3_Witness ==
    \E i \in DOMAIN applied :
        /\ applied[i].filter = "Blur"
        /\ UniformGray(applied[i].in)
        /\ applied[i].in[1].r = 90
        /\ applied[i].width = 3 /\ applied[i].height = 3
        /\ applied[i].out[5] = Pix(90, 90, 90)
        /\ applied[i].out[1] # Pix(90, 90, 90)

\* C4: with no stage added, the buffer getResult() returns after execute() has
\* the dimensions and, at every coordinate, the pixel of the input image.
C4_ZeroStagesIdentity ==
    (pc = "done" /\ stages = << >> /\ lastAccess.op # "set") =>
        /\ images[getResult].width = images["input"].width
        /\ images[getResult].height = images["input"].height
        /\ ResultData = input0
        /\ ResultData = mem[images["input"].data]

C4_Witness ==
    /\ pc = "done"
    /\ stages = << >>
    /\ ~ UniformGray(input0)
    /\ Len(input0) = 9
    /\ ResultData = input0

\* C5: the stages are applied in the order they were appended, each once;
\* frame i is written after stage i has been applied and before stage i+1 is,
\* and holds what stage i left in its destination.
C5_StagesInOrder ==
    /\ Len(applied) <= NumStages
    /\ \A i \in DOMAIN applied :
          applied[i].index = i /\ applied[i].filter = stages[i]
    /\ Len(files) <= Len(applied) /\ Len(applied) <= Len(files) + 1
    /\ pc = "apply" => Len(files) = Len(applied) /\ step = Len(applied) + 1
    /\ pc \in {"swap", "save"} => Len(applied) = Len(files) + 1 /\ step = Len(applied)
    /\ pc \in {"release", "done"} => Len(applied) = NumStages /\ Len(files) = NumStages
    /\ \A i \in DOMAIN files :
          /\ files[i].tag = i
          /\ files[i].width = applied[i].width
          /\ files[i].height = applied[i].height
          /\ files[i].pixels = applied[i].out

C5_Witness ==
    /\ pc = "done"
    /\ stages = << "Sobel", "Grayscale", "Blur" >>
    /\ Len(files) = 3
    /\ files[3].pixels = applied[3].out
    /\ files[1].pixels # files[2].pixels

\* C6: the caller's image keeps the pixels it had before the pipeline was
\* created, whatever stages run and whatever is written through getResult().
C6_InputNeverMutated ==
    /\ "input" \in DOMAIN images
    /\ images["input"].data \in DOMAIN mem
    /\ mem[images["input"].data] = input0

C6_Witness ==
    /\ pc = "done"
    /\ NumStages = 2
    /\ lastAccess.op = "set"
    /\ LastAccessInBounds
    /\ ResultData # lastAccess.before
    /\ mem[images["input"].data] = input0

\* C7: out of bounds, getPixel returns the zero pixel and setPixel leaves every
\* stored pixel as it was.
C7_OutOfBoundsAbsorbed ==
    /\ (lastAccess.op = "get" /\ ~ LastAccessInBounds) => lastAccess.ret = ZeroPixel
    /\ (lastAccess.op = "set" /\ ~ LastAccessInBounds) => ResultData = lastAccess.before

C7_Witness ==
    /\ lastAccess.op = "set"
    /\ lastAccess.x = -1 /\ lastAccess.y = 1
    /\ images[getResult].height = 2
    /\ ResultData = lastAccess.before
    /\ \E k \in DOMAIN ResultData : ResultData[k] # Palette[3]

\* C8: Grayscale writes, at every coordinate, a pixel whose three channels all
\* equal (77*r + 150*g + 29*b) >> 8 of the source pixel there, a value in
\* 0..255.
C8_GrayscaleFormula ==
    \A i \in DOMAIN applied :
        applied[i].filter = "Grayscale" =>
            \A k \in 1..(applied[i].width * applied[i].height) :
                LET p == applied[i].in[k]
                    g == (77 * p.r + 150 * p.g + 29 * p.b) \div 256
                IN  /\ g >= 0 /\ g <= 255
                    /\ applied[i].out[k] = Pix(g, g, g)

C8_Witness ==
    \E i \in DOMAIN applied :
        /\ applied[i].filter = "Grayscale"
        /\ \E k \in DOMAIN applied[i].in :
              /\ applied[i].in[k] = Pix(200, 100, 50)
              /\ applied[i].out[k] = Pix(124, 124, 124)

\* C9: after each stage, every pixel of the buffer it wrote into holds a value
\* written by that stage; nothing of the buffer's earlier contents is left.
C9_NoStalePixels ==
    \A i \in DOMAIN applied :
        applied[i].stored = 1..(applied[i].width * applied[i].height)

\* C10: throughout execute() the front and back buffers are two distinct live
\* buffers of the same width and height, no apply gets one buffer as source
\* and destination, and the buffer released at the end is not the one
\* getResult() returns.
C10_BuffersDistinct ==
    /\ pc \in {"apply", "swap", "save", "release"} =>
          /\ workingBuffer # backBuffer
          /\ workingBuffer \in DOMAIN images /\ backBuffer \in DOMAIN images
          /\ images[workingBuffer].data # images[backBuffer].data
          /\ images[workingBuffer].width = images[backBuffer].width
          /\ images[workingBuffer].height = images[backBuffer].height
    /\ \A i \in DOMAIN applied : applied[i].src # applied[i].dest
    /\ pc = "done" =>
          /\ released # getResult
          /\ released \notin DOMAIN images
          /\ getResult \in DOMAIN images
          /\ images[getResult].data \in DOMAIN mem

C10_Witness ==
    /\ pc = "done"
    /\ NumStages = 3
    /\ released = "working"
    /\ getResult = "back"

====
